---- MODULE Spec2Model ----
(***************************************************************************)
(* SLoP, the Spring log parser: the line reassembler of readStdin and      *)
(* processLogLine, and the filter of printResults.                         *)
(*                                                                         *)
(* A string is a sequence of one-character strings, so that the regular    *)
(* expressions, strings.Fields, strings.TrimSpace and strings.Contains are *)
(* computed character by character as the Go code computes them.          *)
(***************************************************************************)
EXTENDS Integers, Sequences, FiniteSets, TLC

\* ------------------------------------------------------------------ bounds

\* The number of lines the scanner delivers before the input ends or fails.
MaxLines == 4

\* --------------------------------------------------------- character classes

Digit == {"0","1","2","3","4","5","6","7","8","9"}

Upper == {"A","B","C","D","E","F","G","H","I","J","K","L","M",
          "N","O","P","Q","R","S","T","U","V","W","X","Y","Z"}

\* \s of Go's regexp (RE2): [\t\n\f\r ].
ReSpace == {" ", "\t", "\n", "\f", "\r"}

\* unicode.IsSpace on the characters a TLA+ string can hold; strings.Fields
\* and strings.TrimSpace use it.
UnicodeSpace == {" ", "\t", "\n", "\f", "\r"}

\* Membership of a character in a class of the two patterns. A class named
\* by one character is that literal character.
InClass(cls, ch) ==
    CASE cls = "digit" -> ch \in Digit
      [] cls = "upper" -> ch \in Upper
      [] cls = "space" -> ch \in ReSpace
      [] cls = "sep"   -> ch \in {",", "."}
      [] cls = "sign"  -> ch \in {"+", "-"}
      [] cls = "any"   -> ch # "\n"
      [] OTHER         -> ch = cls

\* ------------------------------------------------------------ regexp engine
\* A pattern is a sequence of items tried left to right with backtracking,
\* the leftmost-first semantics of Go's regexp for submatches. An item is a
\* class repeated min..max times (max = -1: unbounded), greedy or lazy, or
\* the optional zone group of the timestamp.

Rep(cls, min, max, lazy) ==
    [kind |-> "rep", cls |-> cls, min |-> min, max |-> max, lazy |-> lazy]

Lit(ch) == Rep(ch, 1, 1, FALSE)

Plus(cls) == Rep(cls, 1, -1, FALSE)

Star(cls) == Rep(cls, 0, -1, FALSE)

LazyStar(cls) == Rep(cls, 0, -1, TRUE)

\* (?:Z|[+-]\d{2}:\d{2})?
ZoneGroup ==
    [kind |-> "zone", cls |-> "any", min |-> 0, max |-> 6, lazy |-> FALSE]

\* The length of the longest run of cls characters of s starting at pos, at
\* most max long when max >= 0.
RECURSIVE Run(_, _, _, _)
Run(cls, s, pos, max) ==
    IF max = 0 \/ pos > Len(s) \/ ~InClass(cls, s[pos])
    THEN 0
    ELSE 1 + Run(cls, s, pos + 1, IF max < 0 THEN max ELSE max - 1)

\* s holds the characters of lits at pos, class by class.
MatchesAt(s, pos, lits) ==
    /\ pos + Len(lits) - 1 <= Len(s)
    /\ \A i \in 1..Len(lits) : InClass(lits[i], s[pos + i - 1])

\* The lengths an item may consume at pos, in the order the engine prefers.
Cands(item, s, pos) ==
    IF item.kind = "zone"
    THEN (IF MatchesAt(s, pos, <<"Z">>) THEN <<1>> ELSE <<>>)
         \o (IF MatchesAt(s, pos, <<"sign","digit","digit",":","digit","digit">>)
             THEN <<6>> ELSE <<>>)
         \o <<0>>
    ELSE LET m == Run(item.cls, s, pos, item.max)
         IN  IF m < item.min
             THEN <<>>
             ELSE [j \in 1..(m - item.min + 1) |->
                      IF item.lazy THEN item.min + j - 1 ELSE m - j + 1]

NoMatch == [ok |-> FALSE, ends |-> <<>>]

\* Match items i.. of the pattern against s from pos: ok, and for each item
\* from i on the position that follows it.
RECURSIVE Match(_, _, _, _)
RECURSIVE FirstOf(_, _, _, _, _, _)
Match(items, s, i, pos) ==
    IF i > Len(items)
    THEN [ok |-> TRUE, ends |-> <<>>]
    ELSE FirstOf(items, s, i, pos, Cands(items[i], s, pos), 1)

FirstOf(items, s, i, pos, cs, j) ==
    IF j > Len(cs)
    THEN NoMatch
    ELSE LET r == Match(items, s, i + 1, pos + cs[j])
         IN  IF r.ok
             THEN [ok |-> TRUE, ends |-> <<pos + cs[j]>> \o r.ends]
             ELSE FirstOf(items, s, i, pos, cs, j + 1)

\* The text items from..to of a successful match consumed.
Group(s, m, from, to) ==
    SubSeq(s, IF from = 1 THEN 1 ELSE m.ends[from - 1], m.ends[to] - 1)

\* -------------------------------------------------------------- the patterns

\* (?P<time>\d{4}-\d{1,2}-\d{1,2}T\d{1,2}:\d{1,2}:\d{1,2}[,.]\d{3}(?:Z|[+-]\d{2}:\d{2})?)
TimeItems ==
    << Rep("digit", 4, 4, FALSE), Lit("-"), Rep("digit", 1, 2, FALSE), Lit("-"),
       Rep("digit", 1, 2, FALSE), Lit("T"), Rep("digit", 1, 2, FALSE), Lit(":"),
       Rep("digit", 1, 2, FALSE), Lit(":"), Rep("digit", 1, 2, FALSE),
       Rep("sep", 1, 1, FALSE), Rep("digit", 3, 3, FALSE), ZoneGroup >>

\* ^time \s+ level \s+ pid \s+---\s+ \[thread\] \s+ class \s*:\s* message
firstLineRegexp ==
    TimeItems                                         \* items 1..14: time
    \o << Plus("space"), Plus("upper"),               \* 16: level
          Plus("space"), Plus("digit"),               \* 18: pid
          Plus("space"), Lit("-"), Lit("-"), Lit("-"), Plus("space"),
          Lit("["), LazyStar("any"), Lit("]"),        \* 25: thread
          Plus("space"), LazyStar("any"),             \* 28: class
          Star("space"), Lit(":"), Star("space"),
          Star("any") >>                              \* 32: message

\* ^\s*at\s+.*
stackFrameItems_optionalSpace ==
    << Star("space"), Lit("a"), Lit("t"), Plus("space"), Star("any") >>

\* ^\s+at\s+.*
stackFrameItems ==
    << Plus("space"), Lit("a"), Lit("t"), Plus("space"), Star("any") >>

\* ^\s*Caused by:.*
causedByItems ==
    << Star("space"), Lit("C"), Lit("a"), Lit("u"), Lit("s"), Lit("e"), Lit("d"),
       Lit(" "), Lit("b"), Lit("y"), Lit(":"), Star("any") >>

\* firstLineRegexp.FindStringSubmatch(line): the pattern is anchored at the
\* start of the line.
FindStringSubmatch(line) == Match(firstLineRegexp, line, 1, 1)

\* continuedRegexp.MatchString(line): either alternative, each anchored.
continuedRegexpMatch(line) ==
    \/ Match(stackFrameItems, line, 1, 1).ok
    \/ Match(causedByItems, line, 1, 1).ok

\* ---------------------------------------------------------- package strings

RECURSIVE TrimLeft(_)
TrimLeft(s) ==
    IF s # <<>> /\ Head(s) \in UnicodeSpace THEN TrimLeft(Tail(s)) ELSE s

RECURSIVE TrimRight(_)
TrimRight(s) ==
    IF s # <<>> /\ s[Len(s)] \in UnicodeSpace
    THEN TrimRight(SubSeq(s, 1, Len(s) - 1))
    ELSE s

\* strings.TrimSpace
TrimSpace(s) == TrimRight(TrimLeft(s))

\* strings.Join(strings.Fields(s), " "): the words of s, one space between.
RECURSIVE JoinFields(_)
JoinFields(s) ==
    LET t == TrimLeft(s)
        n == IF t = <<>> THEN 0
             ELSE CHOOSE k \in 1..Len(t) :
                     /\ \A i \in 1..k : t[i] \notin UnicodeSpace
                     /\ (k = Len(t) \/ t[k + 1] \in UnicodeSpace)
        rest == JoinFields(SubSeq(t, n + 1, Len(t)))
    IN  IF t = <<>> THEN <<>>
        ELSE IF rest = <<>> THEN SubSeq(t, 1, n)
        ELSE SubSeq(t, 1, n) \o <<" ">> \o rest

\* strings.HasPrefix
HasPrefix(s, prefix) ==
    /\ Len(prefix) <= Len(s)
    /\ SubSeq(s, 1, Len(prefix)) = prefix

\* strings.Contains
Contains(s, substr) ==
    \E i \in 0..(Len(s) - Len(substr)) : SubSeq(s, i + 1, i + Len(substr)) = substr

\* ------------------------------------------------------------ the input lines

\* "2024-01-01T10:00:00.000Z INFO 123 --- [main] com.app.Foo : started"
HeaderInfo ==
    <<"2","0","2","4","-","0","1","-","0","1","T","1","0",":","0","0",":","0","0",".","0","0","0","Z"," ","I","N","F","O"," ","1","2","3"," ","-","-","-"," ","[","m","a","i","n","]"," ","c","o","m",".","a","p","p",".","F","o","o"," ",":"," ","s","t","a","r","t","e","d">>

\* "2024-01-01T10:00:05,250Z ERROR 7 --- [ w  1 ] c.A :  failed x "
HeaderError ==
    <<"2","0","2","4","-","0","1","-","0","1","T","1","0",":","0","0",":","0","5",",","2","5","0","Z"," ","E","R","R","O","R"," ","7"," ","-","-","-"," ","["," ","w"," "," ","1"," ","]"," ","c",".","A"," ",":"," "," ","f","a","i","l","e","d"," ","x"," ">>

\* "2024-1-1T1:1:1.000+01:00 WARN 1 --- [t] c : w"
HeaderWarn ==
    <<"2","0","2","4","-","1","-","1","T","1",":","1",":","1",".","0","0","0","+","0","1",":","0","0"," ","W","A","R","N"," ","1"," ","-","-","-"," ","[","t","]"," ","c"," ",":"," ","w">>

\* "\ttimeout"
TabLine == <<"\t","t","i","m","e","o","u","t">>

\* " bar"
SpaceLine == <<" ","b","a","r">>

\* "\tat a.B"
StackLine == <<"\t","a","t"," ","a",".","B">>

\* "Caused by: e"
CausedLine == <<"C","a","u","s","e","d"," ","b","y",":"," ","e">>

\* "at x.Y"
AtLine == <<"a","t"," ","x",".","Y">>

EmptyLine == <<>>

HeaderLines == {HeaderInfo, HeaderError, HeaderWarn}

Lines == HeaderLines \cup {TabLine, SpaceLine, StackLine, CausedLine, AtLine, EmptyLine}

\* -------------------------------------------------------------- the records

\* ParseStatus values, as the comments of processLogLine name them.
EMPTY == 0
STARTED == 1
CONTINUED == 2
COMPLETE == 3

ERROR == <<"E","R","R","O","R">>
WARN == <<"W","A","R","N">>

\* The zero value of SpringLogStruct: `var logObjectBuffer SpringLogStruct`.
ZeroLog ==
    [Time |-> <<>>, Level |-> <<>>, Pid |-> <<>>, Thread |-> <<>>, Class |-> <<>>,
     Message |-> <<>>, Raw |-> <<>>, ParseStatus |-> EMPTY]

\* The two patterns applied to every line of the input alphabet.
firstLineMatch == [l \in Lines |-> FindStringSubmatch(l)]

continuedMatch == [l \in Lines |-> continuedRegexpMatch(l)]

\* The record processLogLine builds from a line the header pattern matches.
springLogLine(line) ==
    LET match == firstLineMatch[line]
    IN  [Time        |-> JoinFields(Group(line, match, 1, 14)),
         Level       |-> JoinFields(Group(line, match, 16, 16)),
         Pid         |-> JoinFields(Group(line, match, 18, 18)),
         Thread      |-> JoinFields(Group(line, match, 25, 25)),
         Class       |-> JoinFields(Group(line, match, 28, 28)),
         Message     |-> TrimSpace(Group(line, match, 32, 32)),
         Raw         |-> line,
         ParseStatus |-> STARTED]

\* The outer condition without the level test: any record in progress.
continuationAllowed_anyLevel(line, buf) == buf.ParseStatus > 0

\* The outer condition without the test of the accumulator's state.
continuationAllowed_noState(line, buf) ==
    \/ buf.Level = ERROR
    \/ buf.Level = WARN
    \/ continuedMatch[line]

\* The outer condition taking a record that holds its header line only.
continuationAllowed_startedOnly(line, buf) ==
    /\ buf.ParseStatus = 1
    /\ \/ buf.Level = ERROR
       \/ buf.Level = WARN
       \/ continuedMatch[line]

\* The outer condition of the continuation branch.
continuationAllowed(line, buf) ==
    /\ buf.ParseStatus > 0
    /\ \/ buf.Level = ERROR
       \/ buf.Level = WARN
       \/ continuedMatch[line]

\* The inner condition without the test for a leading space.
continuationShape_noSpace(line) ==
    \/ continuedMatch[line]
    \/ HasPrefix(line, <<"\t">>)

\* The inner condition of the continuation branch.
continuationShape(line) ==
    \/ continuedMatch[line]
    \/ HasPrefix(line, <<"\t">>)
    \/ (Len(line) > 0 /\ line[1] = " ")

\* The append without the line break.
appendLine_noBreak(text, line) == text \o line

\* An assignment where the code has +=: the line replaces the text.
appendLine_replace(text, line) == line

\* What processLogLine appends to Raw and to Message.
appendLine(text, line) == text \o <<"\n">> \o line

\* processLogLine appending the trimmed line to the message.
processLogLine_trimsAppended(line, buf) ==
    IF firstLineMatch[line].ok
    THEN [buffer  |-> IF buf.ParseStatus # 0
                      THEN [buf EXCEPT !.ParseStatus = COMPLETE]
                      ELSE buf,
          logLine |-> <<springLogLine(line)>>]
    ELSE IF continuationAllowed(line, buf) /\ continuationShape(line)
    THEN LET appended == [buf EXCEPT !.Raw = appendLine(buf.Raw, line),
                                     !.Message = appendLine(buf.Message,
                                                            TrimSpace(line)),
                                     !.ParseStatus = CONTINUED]
         IN  [buffer |-> appended, logLine |-> <<appended>>]
    ELSE [buffer |-> buf, logLine |-> <<>>]

\* processLogLine(line, &buf): the buffer as the call leaves it, and the
\* returned pointer, <<>> for nil and <<record>> otherwise; err is always nil.
processLogLine(line, buf) ==
    IF firstLineMatch[line].ok
    THEN [buffer  |-> IF buf.ParseStatus # 0
                      THEN [buf EXCEPT !.ParseStatus = COMPLETE]
                      ELSE buf,
          logLine |-> <<springLogLine(line)>>]
    ELSE IF continuationAllowed(line, buf) /\ continuationShape(line)
    THEN LET appended == [buf EXCEPT !.Raw = appendLine(buf.Raw, line),
                                     !.Message = appendLine(buf.Message, line),
                                     !.ParseStatus = CONTINUED]
         IN  [buffer |-> appended, logLine |-> <<appended>>]
    ELSE [buffer |-> buf, logLine |-> <<>>]

\* -------------------------------------------------------------------- the sink

checkFilter(c, logObject) == Contains(logObject.Raw, c.Filter)

checkLevel(c, logObject) == logObject.Level = c.Level

\* printResults without the content test under a level filter.
printResults_levelOnly(c, logObject) ==
    IF c.Level # <<>>
    THEN checkLevel(c, logObject)
    ELSE IF c.Filter # <<>>
         THEN checkFilter(c, logObject)
         ELSE TRUE

\* printResults: TRUE when the record is rendered (prettyPrintJson is called).
\* Its error is that of json.Marshal and json.Indent, which a struct of
\* strings and an int never raises: printResults returns nil.
printResults(c, logObject) ==
    IF c.Level # <<>>
    THEN IF ~checkLevel(c, logObject)
         THEN FALSE
         ELSE IF c.Filter # <<>> THEN checkFilter(c, logObject) ELSE TRUE
    ELSE IF c.Filter # <<>>
         THEN checkFilter(c, logObject)
         ELSE TRUE

Timeout == <<"t","i","m","e","o","u","t">>

\* The configurations of the scans: -pretty, and -level ERROR -grep timeout.
Contexts ==
    { [Level |-> <<>>, Filter |-> <<>>, Pretty |-> TRUE],
      [Level |-> ERROR, Filter |-> Timeout, Pretty |-> FALSE] }

\* ------------------------------------------------------------------- the state

VARIABLES
    ctx,                \* the ParserContext readStdin was called with
    logObjectBuffer,    \* the accumulator of readStdin
    previousLogObject,  \* <<>> for nil, <<record>> otherwise
    input,              \* the lines scanner.Text() has delivered so far
    sink,               \* the calls of printResults, in order
    pc,                 \* "scan" inside the loop, "done" after the return
    ret,                \* the error readStdin returned
    returned            \* what the calls of processLogLine made on their own
                        \* returned, in order (the classifier on its own, below)

vars == <<ctx, logObjectBuffer, previousLogObject, input, sink, pc, ret, returned>>

Init ==
    /\ ctx \in Contexts
    /\ logObjectBuffer = ZeroLog
    /\ previousLogObject = <<>>
    /\ input = <<>>
    /\ sink = <<>>
    /\ pc = "scan"
    /\ ret = "none"
    /\ returned = <<>>

\* ------------------------------------------------------------- package time

\* The value of a sequence of decimal digits.
RECURSIVE Num(_)
Num(s) ==
    IF s = <<>> THEN 0
    ELSE 10 * Num(SubSeq(s, 1, Len(s) - 1))
         + (CHOOSE d \in 0..9 : <<"0","1","2","3","4","5","6","7","8","9">>[d + 1] = s[Len(s)])

\* strconv.Itoa, the %d of fmt.Sprintf.
RECURSIVE Itoa(_)
Itoa(n) ==
    IF n < 0 THEN <<"-">> \o Itoa(-n)
    ELSE IF n < 10 THEN << <<"0","1","2","3","4","5","6","7","8","9">>[n + 1] >>
    ELSE Itoa(n \div 10) \o Itoa(n % 10)

\* Integer division and remainder as Go computes them, truncated towards 0.
TruncDiv(a, b) == IF a >= 0 THEN a \div b ELSE -((-a) \div b)

TruncRem(a, b) == a - b * TruncDiv(a, b)

\* strings.Replace(s, ",", ".", 1): the first comma becomes a period.
RECURSIVE ReplaceFirstComma(_)
ReplaceFirstComma(s) ==
    IF s = <<>> THEN <<>>
    ELSE IF Head(s) = "," THEN <<".">> \o Tail(s)
    ELSE <<Head(s)>> \o ReplaceFirstComma(Tail(s))

\* time.RFC3339Nano, "2006-01-02T15:04:05.999999999Z07:00", as time.Parse
\* reads it: year, month, day, minute and second of fixed width, the hour of
\* one or two digits, an optional fraction and the zone.
timeLayoutItems ==
    << Rep("digit", 4, 4, FALSE), Lit("-"), Rep("digit", 2, 2, FALSE), Lit("-"),
       Rep("digit", 2, 2, FALSE), Lit("T"), Rep("digit", 1, 2, FALSE), Lit(":"),
       Rep("digit", 2, 2, FALSE), Lit(":"), Rep("digit", 2, 2, FALSE),
       Rep("sep", 0, 1, FALSE), Star("digit"), ZoneGroup >>

IsLeap(y) == y % 4 = 0 /\ (y % 100 # 0 \/ y % 400 = 0)

DaysIn(month, year) ==
    IF month = 2 THEN (IF IsLeap(year) THEN 29 ELSE 28)
    ELSE IF month \in {4, 6, 9, 11} THEN 30 ELSE 31

\* The days from 1970-01-01 to a date of the proleptic Gregorian calendar.
DaysFromCivil(year, month, day) ==
    LET y == IF month <= 2 THEN year - 1 ELSE year
        era == y \div 400
        yoe == y - era * 400
        doy == (153 * (IF month > 2 THEN month - 3 ELSE month + 9) + 2) \div 5 + day - 1
        doe == yoe * 365 + yoe \div 4 - yoe \div 100 + doy
    IN  era * 146097 + doe - 719468

ParseFailed == [ok |-> FALSE, day |-> 0, ms |-> 0]

\* time.Parse(time.RFC3339Nano, value): ok, and the instant as the day since
\* 1970-01-01 and the millisecond of that day in UTC (the timestamps of the
\* records carry three fractional digits). timeFields reads the elements of
\* the layout, m being the match of the layout against value.
timeFields(value, m) ==
    IF ~m.ok \/ m.ends[14] # Len(value) + 1
    THEN ParseFailed
    ELSE LET year == Num(Group(value, m, 1, 1))
             month == Num(Group(value, m, 3, 3))
             day == Num(Group(value, m, 5, 5))
             hour == Num(Group(value, m, 7, 7))
             min == Num(Group(value, m, 9, 9))
             sec == Num(Group(value, m, 11, 11))
             sep == Group(value, m, 12, 12)
             frac == Group(value, m, 13, 13)
             zone == Group(value, m, 14, 14)
             millis == Num(SubSeq(frac \o <<"0","0","0">>, 1, 3))
             offset == IF zone = <<"Z">> THEN 0
                       ELSE (IF zone[1] = "-" THEN -1 ELSE 1)
                            * (60 * Num(SubSeq(zone, 2, 3)) + Num(SubSeq(zone, 5, 6)))
         IN  IF \/ zone = <<>>
                \/ (sep = <<>>) # (frac = <<>>)
                \/ month \notin 1..12
                \/ day \notin 1..DaysIn(month, year)
                \/ hour > 23 \/ min > 59 \/ sec > 59
                \/ (zone # <<"Z">> /\ (Num(SubSeq(zone, 2, 3)) > 23
                                       \/ Num(SubSeq(zone, 5, 6)) > 59))
             THEN ParseFailed
             ELSE [ok |-> TRUE,
                   day |-> DaysFromCivil(year, month, day),
                   ms |-> ((hour * 60 + min - offset) * 60 + sec) * 1000 + millis]

timeParse(value) == timeFields(value, Match(timeLayoutItems, value, 1, 1))

\* parseTime(timestamp)
parseTime(timestamp) == timeParse(ReplaceFirstComma(timestamp))

\* parseTime on the timestamps the header lines of the input alphabet carry.
parsedTime ==
    [ts \in {springLogLine(h).Time : h \in HeaderLines} |-> parseTime(ts)]

\* t.Sub(p), in milliseconds.
Sub(t, p) == (t.day - p.day) * 86400000 + (t.ms - p.ms)

\* fmt.Sprintf("%d minutes and %d seconds", minutes, seconds)
diffString(minutes, seconds) ==
    Itoa(minutes) \o <<" ","m","i","n","u","t","e","s"," ","a","n","d"," ">>
    \o Itoa(seconds) \o <<" ","s","e","c","o","n","d","s">>

\* "0 minutes and 0 seconds"
zeroDiffString ==
    <<"0"," ","m","i","n","u","t","e","s"," ","a","n","d"," ","0"," ","s","e","c","o","n","d","s">>

\* prettyPrintJson returning the failure of parseTime to its caller.
prettyPrintJson_returnsParseError(lineObj, c, previousTs) ==
    IF ~c.Pretty \/ previousTs = <<>>
    THEN [err |-> "nil", diff |-> <<>>, diagnostics |-> <<>>]
    ELSE IF parsedTime[previousTs].ok /\ parsedTime[lineObj.Time].ok
         THEN [err |-> "nil", diff |-> zeroDiffString, diagnostics |-> <<>>]
         ELSE [err |-> "ParseError", diff |-> <<>>, diagnostics |-> <<>>]

\* The block `if previousTimestamp != ""` of prettyPrintJson, p and t being
\* what parseTime made of the previous and of the current timestamp.
timeDiff(lineObj, previousTs, p, t) ==
    IF p.ok /\ t.ok
    THEN [err |-> "nil",
          diff |-> diffString(TruncDiv(Sub(t, p), 60000),
                              TruncRem(TruncDiv(Sub(t, p), 1000), 60)),
          diagnostics |-> <<>>]
    ELSE [err |-> "nil", diff |-> zeroDiffString,
          diagnostics |->
              (IF ~p.ok
               THEN << [msg |-> "Error parsing previous timestamp",
                        timestamp |-> previousTs] >>
               ELSE <<>>)
              \o (IF ~t.ok
                  THEN << [msg |-> "Error parsing current timestamp",
                           timestamp |-> lineObj.Time] >>
                  ELSE <<>>)]

\* prettyPrintJson(lineObj, &ctx, previousTimestamp): the error it returns,
\* the DIFF line it prints and the failures it reports through slog.Error.
\* json.Marshal and json.Indent cannot fail on a struct of strings and an
\* int, so the error is nil.
prettyPrintJson(lineObj, c, previousTs) ==
    IF ~c.Pretty \/ previousTs = <<>>
    THEN [err |-> "nil", diff |-> <<>>, diagnostics |-> <<>>]
    ELSE timeDiff(lineObj, previousTs, parsedTime[previousTs],
                  parsedTime[lineObj.Time])

\* Nothing is rendered: the filter did not pass.
notRendered == [err |-> "nil", diff |-> <<>>, diagnostics |-> <<>>]

\* previousTimestamp as both flushes compute it.
previousTimestamp(prev) == IF prev # <<>> THEN prev[1].Time ELSE <<>>

\* One call printResults(ctx, &rec, previousTimestamp), as the sink sees it:
\* the arguments, whether the filters passed, and, when they did, what
\* prettyPrintJson printed and returned. err is what printResults returns.
call(rec, previousTs, shown, out) ==
    [record |-> rec, previousTimestamp |-> previousTs, shown |-> shown,
     diff |-> out.diff, diagnostics |-> out.diagnostics, err |-> out.err]

handOff(c, rec, prev) ==
    call(rec, previousTimestamp(prev), printResults(c, rec),
         IF printResults(c, rec)
         THEN prettyPrintJson(rec, c, previousTimestamp(prev))
         ELSE notRendered)

\* `if err := printResults(...); err != nil { return err }` inside the loop:
\* the call is made, and previousLogObject moves on only when it returned nil.
flushed(snk, entry, prev, next) ==
    [sink |-> Append(snk, entry),
     previous |-> IF entry.err = "nil" THEN next ELSE prev,
     err |-> entry.err]

notFlushed(snk, prev) == [sink |-> snk, previous |-> prev, err |-> "nil"]

\* The flush inside the loop testing the copy, which is never COMPLETE.
flushInLoop_testsCopy(c, before, after, prev, snk) ==
    IF before.ParseStatus = 3
    THEN flushed(snk, handOff(c, before, prev), prev, <<before>>)
    ELSE notFlushed(snk, prev)

\* The flush inside the loop taken for an appended line as well.
flushInLoop_onAppend(c, before, after, prev, snk) ==
    IF after.ParseStatus >= 2
    THEN flushed(snk, handOff(c, before, prev), prev, <<before>>)
    ELSE notFlushed(snk, prev)

\* The flush inside the loop without `previousLogObject = &prev`.
flushInLoop_keepsPrevious(c, before, after, prev, snk) ==
    IF after.ParseStatus = 3
    THEN flushed(snk, handOff(c, before, prev), prev, prev)
    ELSE notFlushed(snk, prev)

\* The flush inside the loop moving previousLogObject on only for a record
\* the filters let through.
flushInLoop_advancesWhenShown(c, before, after, prev, snk) ==
    IF after.ParseStatus = 3
    THEN flushed(snk, handOff(c, before, prev), prev,
                 IF printResults(c, before) THEN <<before>> ELSE prev)
    ELSE notFlushed(snk, prev)

\* The flush inside the loop: the copy taken before processLogLine is handed
\* over when the call left the buffer COMPLETE.
flushInLoop(c, before, after, prev, snk) ==
    IF after.ParseStatus = 3
    THEN flushed(snk, handOff(c, before, prev), prev, <<before>>)
    ELSE notFlushed(snk, prev)

\* The assignment keeping the level of a record in progress.
assignLine_keepsLevel(buf, lineObj) ==
    IF lineObj # <<>>
    THEN IF buf.ParseStatus # 0
         THEN [lineObj[1] EXCEPT !.Level = buf.Level]
         ELSE lineObj[1]
    ELSE buf

\* The loop without the assignment: the accumulator is what the call left.
assignLine_keepsBuffer(buf, lineObj) == buf

\* `if lineObj != nil { logObjectBuffer = *lineObj }`
assignLine(buf, lineObj) == IF lineObj # <<>> THEN lineObj[1] ELSE buf

\* The iteration with `break` where the code has `continue`: an empty line
\* ends the loop, and the flush after the loop follows.
ScanLine_breaksOnEmpty(line) ==
    /\ pc = "scan"
    /\ Len(input) < MaxLines
    /\ input' = Append(input, line)
    /\ IF Len(line) = 0
       THEN LET e == IF logObjectBuffer.ParseStatus # 0
                     THEN flushed(sink, handOff(ctx, logObjectBuffer,
                                                previousLogObject),
                                  previousLogObject, previousLogObject)
                     ELSE notFlushed(sink, previousLogObject)
            IN  /\ sink' = e.sink
                /\ pc' = "done"
                /\ ret' = e.err
                /\ UNCHANGED <<logObjectBuffer, previousLogObject>>
       ELSE LET bufferBeforeProcessing == logObjectBuffer
                r == processLogLine(line, logObjectBuffer)
                f == IF r.buffer.ParseStatus = 3
                     THEN flushed(sink, handOff(ctx, bufferBeforeProcessing,
                                                previousLogObject),
                                  previousLogObject, <<bufferBeforeProcessing>>)
                     ELSE notFlushed(sink, previousLogObject)
            IN  /\ sink' = f.sink
                /\ previousLogObject' = f.previous
                /\ IF f.err # "nil"
                   THEN /\ logObjectBuffer' = r.buffer
                        /\ pc' = "done"
                        /\ ret' = f.err
                   ELSE /\ logObjectBuffer' = IF r.logLine # <<>> THEN r.logLine[1]
                                              ELSE r.buffer
                        /\ UNCHANGED <<pc, ret>>
    /\ UNCHANGED <<ctx, returned>>

\* One iteration of `for scanner.Scan()`: a line is delivered. An error of
\* printResults ends readStdin at once; processLogLine returns none.
ScanLine(line) ==
    /\ pc = "scan"
    /\ Len(input) < MaxLines
    /\ input' = Append(input, line)
    /\ IF Len(line) = 0
       THEN UNCHANGED <<logObjectBuffer, previousLogObject, sink, pc, ret>>
       ELSE LET bufferBeforeProcessing == logObjectBuffer
                r == processLogLine(line, logObjectBuffer)
                f == flushInLoop(ctx, bufferBeforeProcessing, r.buffer,
                                 previousLogObject, sink)
            IN  /\ sink' = f.sink
                /\ previousLogObject' = f.previous
                /\ IF f.err # "nil"
                   THEN /\ logObjectBuffer' = r.buffer
                        /\ pc' = "done"
                        /\ ret' = f.err
                   ELSE /\ logObjectBuffer' = assignLine(r.buffer, r.logLine)
                        /\ UNCHANGED <<pc, ret>>
    /\ UNCHANGED <<ctx, returned>>

\* The flush after the loop without the test for an empty accumulator.
flushAtEnd_unguarded(c, buf, prev, snk) ==
    flushed(snk, handOff(c, buf, prev), prev, prev)

\* The flush after the loop; previousLogObject stays as it is.
flushAtEnd(c, buf, prev, snk) ==
    IF buf.ParseStatus # 0
    THEN flushed(snk, handOff(c, buf, prev), prev, prev)
    ELSE notFlushed(snk, prev)

\* The end of the loop with scanner.Err() tested before the flush.
ScanStops_errFirst(err) ==
    /\ pc = "scan"
    /\ LET f == IF err = "nil"
                THEN flushAtEnd(ctx, logObjectBuffer, previousLogObject, sink)
                ELSE notFlushed(sink, previousLogObject)
       IN  /\ sink' = f.sink
           /\ ret' = IF f.err # "nil" THEN f.err ELSE err
    /\ pc' = "done"
    /\ UNCHANGED <<ctx, logObjectBuffer, previousLogObject, input, returned>>

\* scanner.Scan() returns false: the loop ends, the accumulator is flushed
\* and scanner.Err() is returned, nil at end of input; an error of
\* printResults is returned in its place.
ScanStops(err) ==
    /\ pc = "scan"
    /\ LET f == flushAtEnd(ctx, logObjectBuffer, previousLogObject, sink)
       IN  /\ sink' = f.sink
           /\ ret' = IF f.err # "nil" THEN f.err ELSE err
    /\ pc' = "done"
    /\ UNCHANGED <<ctx, logObjectBuffer, previousLogObject, input, returned>>

EndOfInput == ScanStops("nil")

ReadError == ScanStops("ReadError")

Next ==
    \/ \E line \in Lines : ScanLine(line)
    \/ EndOfInput
    \/ ReadError

Spec == Init /\ [][Next]_vars

\* -------------------------------------------- the classifier on its own
\* processLogLine called twice with one line and one accumulator, which the
\* caller leaves alone between the calls: the callee writes through the
\* pointer, so the second call starts from what the first one left. Every
\* line meets the zero record and every record one header line and at most
\* one more line produce.

ClassifyRecords ==
    {ZeroLog}
    \cup {springLogLine(h) : h \in HeaderLines}
    \cup {processLogLine(l, springLogLine(h)).buffer :
             h \in HeaderLines, l \in Lines \ HeaderLines}

InitClassify ==
    /\ ctx = [Level |-> <<>>, Filter |-> <<>>, Pretty |-> FALSE]
    /\ logObjectBuffer \in ClassifyRecords
    /\ previousLogObject = <<>>
    /\ input \in {<<l>> : l \in Lines}
    /\ sink = <<>>
    /\ pc = "classify"
    /\ ret = "none"
    /\ returned = <<>>

\* lineObj, err := processLogLine(line, &logObjectBuffer), the first and the
\* second time; the record behind the returned pointer is kept as the call
\* returned it.
Classify ==
    /\ pc = "classify"
    /\ Len(returned) < 2
    /\ LET r == processLogLine(input[1], logObjectBuffer)
       IN  /\ logObjectBuffer' = r.buffer
           /\ returned' = Append(returned, r.logLine)
    /\ UNCHANGED <<ctx, previousLogObject, input, sink, pc, ret>>

NextClassify == Classify

SpecClassify == InitClassify /\ [][NextClassify]_vars

\* ------------------------------------------------- the sink on its own
\* printResults as a function of its arguments: every filter configuration
\* against every record one header and at most one more line produce.

Lower == <<"e","r","r","o","r">>
Info == <<"I","N","F","O">>
Capital == <<"T","i","m","e","o","u","t">>
Break == <<"\n","\t">>

SinkContexts ==
    [Level : {<<>>, ERROR, Lower, Info}, Filter : {<<>>, Timeout, Capital, Break},
     Pretty : BOOLEAN]

SinkRecords ==
    {springLogLine(h) : h \in HeaderLines}
    \cup {processLogLine(l, springLogLine(h)).buffer :
             h \in HeaderLines, l \in Lines \ HeaderLines}

InitSink ==
    /\ ctx \in SinkContexts
    /\ logObjectBuffer \in SinkRecords
    /\ previousLogObject = <<>>
    /\ input = <<>>
    /\ sink = <<>>
    /\ pc = "sink"
    /\ ret = "none"
    /\ returned = <<>>

\* printResults(ctx, &logObjectBuffer, previousTimestamp)
Render ==
    /\ pc = "sink"
    /\ sink' = Append(sink, handOff(ctx, logObjectBuffer, previousLogObject))
    /\ pc' = "done"
    /\ UNCHANGED <<ctx, logObjectBuffer, previousLogObject, input, ret, returned>>

NextSink == Render

SpecSink == InitSink /\ [][NextSink]_vars

\* ------------------------------------------------ vocabulary of the claims

\* The line matches the header pattern.
IsHeaderLine(line) == firstLineMatch[line].ok

\* The header lines of a sequence of lines, in order.
HeadersOf(ls) == SelectSeq(ls, IsHeaderLine)

\* The text of s before its first line break.
RECURSIVE FirstLine(_)
FirstLine(s) ==
    IF s = <<>> \/ Head(s) = "\n" THEN <<>> ELSE <<Head(s)>> \o FirstLine(Tail(s))

\* The first lines of the records handed to the sink, in order.
EmittedFirstLines == [i \in 1..Len(sink) |-> FirstLine(sink[i].record.Raw)]

\* The scan ended at end of input, without error.
EndedAtEOF == pc = "done" /\ ret = "nil"

\* A step of the loop that delivered a line.
LineStep == pc = "scan" /\ pc' = "scan" /\ Len(input') = Len(input) + 1

\* The line a LineStep delivered.
NewLine == input'[Len(input')]

\* ----------------------------------------------------------------------- C1
\* C1: when the input ends by end of input, the first lines of the records
\* handed to the sink are exactly the header lines of the input, in order;
\* and between two lines the records handed so far, followed by the record in
\* progress, are the header lines read so far: a record is handed over before
\* the header line that flushed it takes the accumulator.
C1_HeaderOrder ==
    LET pending == IF logObjectBuffer.ParseStatus # 0
                   THEN <<FirstLine(logObjectBuffer.Raw)>>
                   ELSE <<>>
    IN  /\ EndedAtEOF => EmittedFirstLines = HeadersOf(input)
        /\ pc = "scan" => EmittedFirstLines \o pending = HeadersOf(input)

\* Two records flushed at end of input, one by a header and one by the end,
\* with lines between the headers.
C1_Witness ==
    /\ EndedAtEOF
    /\ Len(sink) = 2
    /\ Len(input) = MaxLines
    /\ EmittedFirstLines = <<HeaderError, HeaderInfo>>

\* ----------------------------------------------------------------------- C2

\* The line matches the stack-frame/cause pattern.
StackOrCause(line) == continuedMatch[line]

\* The three conditions of the continuation policy, for a non-empty line.
Qualifies(line, buf) ==
    /\ buf.ParseStatus # EMPTY
    /\ (buf.Level \in {ERROR, WARN} \/ StackOrCause(line))
    /\ (StackOrCause(line) \/ line[1] = "\t" \/ line[1] = " ")

\* The step delivered a non-empty line that is not a header.
NonHeaderStep == LineStep /\ NewLine # <<>> /\ ~IsHeaderLine(NewLine)

\* The step appended the line to the accumulator.
AppendedStep ==
    /\ logObjectBuffer'.ParseStatus = CONTINUED
    /\ logObjectBuffer'.Raw = logObjectBuffer.Raw \o <<"\n">> \o NewLine

Started == <<"s","t","a","r","t","e","d">>

\* C2: a non-header line is appended to the accumulator if and only if the
\* accumulator is in progress, its level is ERROR or WARN or the line matches
\* the stack-frame/cause pattern, and the line matches that pattern or begins
\* with a tab or a space; and an INFO header followed by a tab-indented line
\* and the end of input emits the INFO record with its one-line message.
C2_ContinuationPolicy ==
    /\ [][NonHeaderStep => (AppendedStep <=> Qualifies(NewLine, logObjectBuffer))]_vars
    /\ []((EndedAtEOF /\ input = <<HeaderInfo, TabLine>>) =>
            /\ Len(sink) = 1
            /\ sink[1].record.Raw = HeaderInfo
            /\ sink[1].record.Message = Started)

\* An INFO record that ignored a tab-indented line and then took a stack frame.
C2_Witness ==
    /\ pc = "scan"
    /\ input = <<HeaderInfo, TabLine, StackLine>>
    /\ logObjectBuffer.Raw = HeaderInfo \o <<"\n">> \o StackLine

\* ----------------------------------------------------------------------- C3

\* The last header line of a sequence of lines that holds one.
LastHeaderIndex(ls) ==
    CHOOSE i \in 1..Len(ls) :
        /\ IsHeaderLine(ls[i])
        /\ \A j \in (i + 1)..Len(ls) : ~IsHeaderLine(ls[j])

LastHeader(ls) == ls[LastHeaderIndex(ls)]

\* The lines after the last header line.
SinceLastHeader(ls) == SubSeq(ls, LastHeaderIndex(ls) + 1, Len(ls))

\* text followed by each line of ls, a line break before each.
RECURSIVE JoinLines(_, _)
JoinLines(text, ls) ==
    IF ls = <<>> THEN text ELSE JoinLines(text \o <<"\n">> \o Head(ls), Tail(ls))

\* The accumulator holds a record whose level is neither ERROR nor WARN.
QuietInProgress ==
    /\ logObjectBuffer.ParseStatus # EMPTY
    /\ logObjectBuffer.Level \notin {ERROR, WARN}

\* C3 as stated: a record whose level is neither ERROR nor WARN never accepts
\* a continuation line, so its raw and message are those of its header line.
C3_Original ==
    QuietInProgress =>
        /\ logObjectBuffer.Raw = LastHeader(input)
        /\ logObjectBuffer.Message = springLogLine(LastHeader(input)).Message

\* C3 amended: a record whose level is neither ERROR nor WARN accepts exactly
\* the lines that match the stack-frame/cause pattern: its raw and message
\* are those of its header line followed by the matching lines read since.
C3_QuietTakesOnlyStackOrCause ==
    QuietInProgress =>
        LET taken == SelectSeq(SinceLastHeader(input), StackOrCause)
        IN  /\ logObjectBuffer.Raw = JoinLines(LastHeader(input), taken)
            /\ logObjectBuffer.Message =
                   JoinLines(springLogLine(LastHeader(input)).Message, taken)

\* An INFO record offered a tab line, a space line and a Caused by line.
C3_Witness ==
    /\ input = <<HeaderInfo, TabLine, SpaceLine, CausedLine>>
    /\ logObjectBuffer.Level = Info
    /\ logObjectBuffer.Raw = HeaderInfo \o <<"\n">> \o CausedLine

\* ----------------------------------------------------------------------- C4

\* The step in which scanner.Scan() fails and readStdin returns the error.
ReadErrorStep == pc = "scan" /\ pc' = "done" /\ ret' = "ReadError"

\* readStdin returned the read error.
EndedByReadError == pc = "done" /\ ret = "ReadError"

\* C4 as stated: a read error ends the scan without handing the record in
\* progress to the sink.
C4_Original == [][ReadErrorStep => sink' = sink]_vars

\* C4 amended: a read error ends the scan and readStdin returns the error,
\* after handing the record in progress to the sink as at end of input: every
\* header line read has its record in the sink and the last one handed is the
\* accumulator.
C4_ReadErrorFlushes ==
    EndedByReadError =>
        /\ EmittedFirstLines = HeadersOf(input)
        /\ logObjectBuffer.ParseStatus # EMPTY =>
               sink[Len(sink)].record = logObjectBuffer

\* A read error with a continued record in progress and one already flushed.
C4_Witness ==
    /\ EndedByReadError
    /\ logObjectBuffer.ParseStatus = CONTINUED
    /\ Len(sink) = 2
    /\ sink[2].record = logObjectBuffer

\* ----------------------------------------------------------------------- C5

\* C5: every record handed to the sink has ParseStatus COMPLETE (3) when it
\* is handed over, by a following header line or by the end of input.
C5_HandedComplete ==
    \A i \in 1..Len(sink) : sink[i].record.ParseStatus = COMPLETE

\* ----------------------------------------------------------------------- C6

\* The step in which scanner.Scan() returns false at end of input.
EndOfInputStep == pc = "scan" /\ pc' = "done" /\ ret' = "nil"

\* C6: at end of input exactly one record, the accumulator, is handed to the
\* sink when the accumulator is not EMPTY and none when it is; an input
\* without header line emits no record and one with a single header line
\* emits exactly one.
C6_EndOfInputFlush ==
    /\ [][EndOfInputStep =>
            IF logObjectBuffer.ParseStatus # EMPTY
            THEN /\ Len(sink') = Len(sink) + 1
                 /\ SubSeq(sink', 1, Len(sink)) = sink
                 /\ sink'[Len(sink')].record = logObjectBuffer
            ELSE sink' = sink]_vars
    /\ [](EndedAtEOF =>
            /\ HeadersOf(input) = <<>> => sink = <<>>
            /\ Len(HeadersOf(input)) = 1 => Len(sink) = 1)

\* The input ended after one header line among other lines: one record.
C6_Witness ==
    /\ EndedAtEOF
    /\ Len(HeadersOf(input)) = 1
    /\ Len(input) > 1
    /\ Len(sink) = 1

\* ----------------------------------------------------------------------- C7

\* C7: the sink receives a record only in a step that reads a header line
\* while a record is in progress, and then that record, or in the step that
\* ends the scan; a continuation line, an ignored line and an empty line leave
\* the sink as it is.
C7_FlushOnlyByHeaderOrEnd ==
    [][sink' # sink =>
         \/ pc' = "done"
         \/ /\ LineStep
            /\ IsHeaderLine(NewLine)
            /\ logObjectBuffer.ParseStatus # EMPTY
            /\ Len(sink') = Len(sink) + 1
            /\ SubSeq(sink', 1, Len(sink)) = sink
            /\ sink'[Len(sink')].record = logObjectBuffer]_vars

\* A record in progress after a continuation line, an ignored line and an
\* empty line, with nothing handed to the sink.
C7_Witness ==
    /\ pc = "scan"
    /\ input = <<HeaderError, TabLine, AtLine, EmptyLine>>
    /\ logObjectBuffer.ParseStatus = CONTINUED
    /\ sink = <<>>

\* ----------------------------------------------------------------------- C8

\* C8: a record is rendered if and only if the level filter is empty or
\* equals the record's level, and the content filter is empty or occurs in
\* the record's raw.
C8_FilterSemantics ==
    \A i \in 1..Len(sink) :
        sink[i].shown <=>
            /\ (ctx.Level = <<>> \/ sink[i].record.Level = ctx.Level)
            /\ (ctx.Filter = <<>> \/ Contains(sink[i].record.Raw, ctx.Filter))

\* Both filters set, the level passes and the raw does not hold the content
\* filter: not rendered.
C8_Witness ==
    /\ ctx.Level = ERROR
    /\ ctx.Filter = Timeout
    /\ Len(sink) = 1
    /\ sink[1].record.Level = ERROR
    /\ ~Contains(sink[1].record.Raw, Timeout)
    /\ ~sink[1].shown

\* ----------------------------------------------------------------------- C9

\* C9: a non-header line that does not qualify as a continuation leaves every
\* field of the accumulator as it was, and the sink too; while no header line
\* has been read the accumulator is the empty record and nothing is emitted.
C9_IgnoredLeavesAccumulator ==
    /\ [][(NonHeaderStep /\ ~Qualifies(NewLine, logObjectBuffer)) =>
            /\ logObjectBuffer' = logObjectBuffer
            /\ sink' = sink]_vars
    /\ [](HeadersOf(input) = <<>> => logObjectBuffer = ZeroLog /\ sink = <<>>)

\* Stack-frame and indented lines read before any header: still EMPTY.
C9_Witness ==
    /\ input = <<StackLine, TabLine, CausedLine, SpaceLine>>
    /\ logObjectBuffer = ZeroLog

\* ---------------------------------------------------------------------- C10

IsPrefix(p, t) == Len(p) <= Len(t) /\ SubSeq(t, 1, Len(p)) = p

\* C10: a step that reads a non-header line leaves the previous message a
\* prefix of the new message and the previous raw a prefix of the new raw, so
\* neither gets shorter; when the line is appended both get longer.
C10_AppendOnly ==
    [][NonHeaderStep =>
         /\ IsPrefix(logObjectBuffer.Message, logObjectBuffer'.Message)
         /\ IsPrefix(logObjectBuffer.Raw, logObjectBuffer'.Raw)
         /\ logObjectBuffer' # logObjectBuffer =>
                /\ Len(logObjectBuffer'.Message) > Len(logObjectBuffer.Message)
                /\ Len(logObjectBuffer'.Raw) > Len(logObjectBuffer.Raw)]_vars

\* A record extended twice.
C10_Witness ==
    /\ input = <<HeaderWarn, SpaceLine, StackLine>>
    /\ logObjectBuffer.Raw =
           HeaderWarn \o <<"\n">> \o SpaceLine \o <<"\n">> \o StackLine

\* ---------------------------------------------------------------------- C11

NonEmpty(line) == line # <<>>

\* The accumulator, the previous record and the sink after the classifier
\* has been given every line of ls in turn, with no test for empty lines.
RECURSIVE Replay(_, _)
Replay(c, ls) ==
    IF ls = <<>>
    THEN [buffer |-> ZeroLog, previous |-> <<>>, sink |-> <<>>]
    ELSE LET s == Replay(c, SubSeq(ls, 1, Len(ls) - 1))
             r == processLogLine(ls[Len(ls)], s.buffer)
             f == flushInLoop(c, s.buffer, r.buffer, s.previous, s.sink)
         IN  [buffer |-> assignLine(r.buffer, r.logLine),
              previous |-> f.previous, sink |-> f.sink]

\* The step delivered an empty line.
EmptyLineStep ==
    pc = "scan" /\ Len(input') = Len(input) + 1 /\ input'[Len(input')] = <<>>

\* C11: a step that reads an empty line changes nothing but the position in
\* the input and the scan goes on; so the accumulator and the records handed
\* to the sink are those of the input with its empty lines removed, during
\* the scan and after the flush that ends it.
C11_EmptyLinesSkipped ==
    /\ [][EmptyLineStep =>
            UNCHANGED <<logObjectBuffer, previousLogObject, sink, pc, ret>>]_vars
    /\ [](LET s == Replay(ctx, SelectSeq(input, NonEmpty))
          IN  /\ logObjectBuffer = s.buffer
              /\ pc = "scan" => sink = s.sink
              /\ pc = "done" => sink = flushAtEnd(ctx, s.buffer, s.previous, s.sink).sink)

\* Empty lines between a header and its continuation, and before the end.
C11_Witness ==
    /\ EndedAtEOF
    /\ input = <<HeaderError, EmptyLine, TabLine, EmptyLine>>
    /\ Len(sink) = 1
    /\ sink[1].record.Raw = HeaderError \o <<"\n">> \o TabLine

\* ---------------------------------------------------------------------- C12
\* The six fields of the three header lines, read off the lines by hand.

\* time "2024-01-01T10:00:00.000Z", level "INFO", pid "123", thread "main", class "com.app.Foo", message "started"
FieldsInfo ==
    [Time |-> <<"2","0","2","4","-","0","1","-","0","1","T","1","0",":","0","0",":","0","0",".","0","0","0","Z">>,
     Level |-> <<"I","N","F","O">>,
     Pid |-> <<"1","2","3">>,
     Thread |-> <<"m","a","i","n">>,
     Class |-> <<"c","o","m",".","a","p","p",".","F","o","o">>,
     Message |-> <<"s","t","a","r","t","e","d">>]

\* time "2024-01-01T10:00:05,250Z", level "ERROR", pid "7", thread "w 1", class "c.A", message "failed x"
FieldsError ==
    [Time |-> <<"2","0","2","4","-","0","1","-","0","1","T","1","0",":","0","0",":","0","5",",","2","5","0","Z">>,
     Level |-> <<"E","R","R","O","R">>,
     Pid |-> <<"7">>,
     Thread |-> <<"w"," ","1">>,
     Class |-> <<"c",".","A">>,
     Message |-> <<"f","a","i","l","e","d"," ","x">>]

\* time "2024-1-1T1:1:1.000+01:00", level "WARN", pid "1", thread "t", class "c", message "w"
FieldsWarn ==
    [Time |-> <<"2","0","2","4","-","1","-","1","T","1",":","1",":","1",".","0","0","0","+","0","1",":","0","0">>,
     Level |-> <<"W","A","R","N">>,
     Pid |-> <<"1">>,
     Thread |-> <<"t">>,
     Class |-> <<"c">>,
     Message |-> <<"w">>]

\* The fields of a header line of the input alphabet.
Fields(h) ==
    CASE h = HeaderInfo  -> FieldsInfo
      [] h = HeaderError -> FieldsError
      [] h = HeaderWarn  -> FieldsWarn

\* The positions of the header lines of ls, in order.
HeaderIndices(ls) ==
    LET AtHeader(i) == IsHeaderLine(ls[i])
    IN  SelectSeq([i \in 1..Len(ls) |-> i], AtHeader)

\* The lines between the k-th header line of ls and the next one, or the end.
Segment(ls, k) ==
    LET idx == HeaderIndices(ls)
    IN  SubSeq(ls, idx[k] + 1, IF k < Len(idx) THEN idx[k + 1] - 1 ELSE Len(ls))

\* The lines of the k-th segment that the continuation policy accepts for a
\* record of the k-th header's level.
Accepted(ls, k) ==
    LET level == Fields(ls[HeaderIndices(ls)[k]]).Level
        Takes(l) == /\ l # <<>>
                    /\ (level \in {ERROR, WARN} \/ StackOrCause(l))
                    /\ (StackOrCause(l) \/ l[1] = "\t" \/ l[1] = " ")
    IN  SelectSeq(Segment(ls, k), Takes)

ExpectedRaw(ls, k) == JoinLines(ls[HeaderIndices(ls)[k]], Accepted(ls, k))

ExpectedMessage(ls, k) ==
    JoinLines(Fields(ls[HeaderIndices(ls)[k]]).Message, Accepted(ls, k))

FailedX == <<"f","a","i","l","e","d"," ","x">>

\* C12: the raw of the k-th record handed to the sink is the k-th header
\* line followed by the lines accepted as continuations up to the next header
\* line or the end, a line break before each, and its message is the trimmed
\* header message followed by the same lines; an ERROR header, two tab lines
\* and a new header give a first record with a message of three lines while
\* the second record is in progress.
C12_RawAndMessage ==
    /\ \A k \in 1..Len(sink) :
          /\ sink[k].record.Raw = ExpectedRaw(input, k)
          /\ sink[k].record.Message = ExpectedMessage(input, k)
    /\ (pc = "scan" /\ input = <<HeaderError, TabLine, TabLine, HeaderInfo>>) =>
          /\ Len(sink) = 1
          /\ sink[1].record.Message =
                 FailedX \o <<"\n">> \o TabLine \o <<"\n">> \o TabLine
          /\ logObjectBuffer.Raw = HeaderInfo
          /\ logObjectBuffer.ParseStatus = STARTED

\* Scenario B, flushed by the second header.
C12_Witness ==
    /\ pc = "scan"
    /\ input = <<HeaderError, TabLine, TabLine, HeaderInfo>>
    /\ Len(sink) = 1
    /\ sink[1].record.Raw = HeaderError \o <<"\n">> \o TabLine \o <<"\n">> \o TabLine

\* ---------------------------------------------------------------------- C13

\* C13: the first record handed to the sink comes with the empty string as
\* previous timestamp, and every later one with the timestamp of the record
\* handed over just before it, whether a header line or the end of the input
\* flushed it.
C13_PreviousTimestamp ==
    \A k \in 1..Len(sink) :
        sink[k].previousTimestamp =
            IF k = 1 THEN <<>> ELSE sink[k - 1].record.Time

\* Three records with three timestamps, the last flushed by the end of input.
C13_Witness ==
    /\ EndedAtEOF
    /\ input = <<HeaderInfo, HeaderError, HeaderWarn>>
    /\ Len(sink) = 3
    /\ sink[2].previousTimestamp = FieldsInfo.Time
    /\ sink[3].previousTimestamp = FieldsError.Time


\* ---------------------------------------------------------------------- C14
\* The timestamps of the header lines that time.RFC3339Nano does not parse:
\* the month, the day, the minute and the second of the layout have two
\* digits, and the timestamp of HeaderWarn has one.
Unparseable == {FieldsWarn.Time}

ZeroDelta ==
    <<"0"," ","m","i","n","u","t","e","s"," ","a","n","d"," ","0"," ","s","e","c","o","n","d","s">>

\* The k-th call of the sink computed a delta from a timestamp that does not
\* parse.
DeltaFailed(k) ==
    /\ ctx.Pretty
    /\ sink[k].shown
    /\ sink[k].previousTimestamp # <<>>
    /\ \/ sink[k].previousTimestamp \in Unparseable
       \/ sink[k].record.Time \in Unparseable

\* C14: a call of the sink that computes the delta from a timestamp that does
\* not parse reports each failing timestamp, prints the delta
\* "0 minutes and 0 seconds" and returns no error; readStdin returns nothing
\* but what the scanner reports, and every header line of the input has its
\* record handed over: all but the one in progress between two lines, all of
\* them once the input has ended.
C14_ParseFailureGoesOn ==
    /\ \A k \in 1..Len(sink) :
          /\ sink[k].err = "nil"
          /\ DeltaFailed(k) =>
                /\ sink[k].diff = ZeroDelta
                /\ sink[k].diagnostics =
                      (IF sink[k].previousTimestamp \in Unparseable
                       THEN << [msg |-> "Error parsing previous timestamp",
                                timestamp |-> sink[k].previousTimestamp] >>
                       ELSE <<>>)
                      \o (IF sink[k].record.Time \in Unparseable
                          THEN << [msg |-> "Error parsing current timestamp",
                                   timestamp |-> sink[k].record.Time] >>
                          ELSE <<>>)
    /\ ret \in {"none", "nil", "ReadError"}
    /\ pc = "scan" =>
          /\ ret = "none"
          /\ Len(sink) = (IF HeadersOf(input) = <<>> THEN 0
                          ELSE Len(HeadersOf(input)) - 1)
    /\ pc = "done" => Len(sink) = Len(HeadersOf(input))
    /\ \A k \in 1..Len(sink) : sink[k].record.Time = Fields(HeadersOf(input)[k]).Time

\* A record whose timestamp does not parse is rendered with the zero delta,
\* and so is the record after it; both later records are flushed and the scan
\* returns nil.
C14_Witness ==
    /\ EndedAtEOF
    /\ ctx.Pretty
    /\ input = <<HeaderInfo, HeaderWarn, HeaderError>>
    /\ Len(sink) = 3
    /\ DeltaFailed(2)
    /\ DeltaFailed(3)
    /\ sink[2].diff = ZeroDelta
    /\ sink[2].diagnostics = << [msg |-> "Error parsing current timestamp",
                                 timestamp |-> FieldsWarn.Time] >>
    /\ sink[3].diff = ZeroDelta
    /\ sink[3].diagnostics = << [msg |-> "Error parsing previous timestamp",
                                 timestamp |-> FieldsWarn.Time] >>


\* ---------------------------------------------------------------------- C15
\* The line is the token `at`, white space and text, with no white space
\* before the token.
UnindentedAt(line) ==
    /\ Len(line) >= 3
    /\ line[1] = "a"
    /\ line[2] = "t"
    /\ line[3] \in ReSpace

\* The line without its leading white space.
RECURSIVE Unindented(_)
Unindented(line) ==
    IF line # <<>> /\ Head(line) \in ReSpace THEN Unindented(Tail(line)) ELSE line

\* The token `at`, white space and text, after at least one white space.
IndentedAt(line) == Unindented(line) # line /\ UnindentedAt(Unindented(line))

\* A line is delivered between two lines of a record in progress.
InProgressStep == LineStep /\ logObjectBuffer.ParseStatus # EMPTY

\* C15 as stated: a line that begins with `at` and text, with no white space
\* before it, is appended to the record in progress just as an indented one.
C15_Original ==
    [][(InProgressStep /\ (UnindentedAt(NewLine) \/ IndentedAt(NewLine)))
          => AppendedStep]_vars

\* C15: the stack-frame pattern requires white space before `at`. A line `at`
\* and text after at least one white space is appended to the record in
\* progress whatever its level; the same token with no white space before it
\* is ignored whatever the level: the accumulator and the sink stay as they
\* are.
C15_IndentedAtOnly ==
    [][InProgressStep =>
          /\ IndentedAt(NewLine) => AppendedStep
          /\ UnindentedAt(NewLine) =>
                /\ logObjectBuffer' = logObjectBuffer
                /\ sink' = sink
                /\ previousLogObject' = previousLogObject]_vars

\* An ERROR record ignored `at x.Y` and then took the indented frame.
C15_Witness ==
    /\ pc = "scan"
    /\ input = <<HeaderError, AtLine, StackLine>>
    /\ UnindentedAt(AtLine)
    /\ IndentedAt(StackLine)
    /\ sink = <<>>
    /\ logObjectBuffer.ParseStatus = CONTINUED
    /\ logObjectBuffer.Raw = HeaderError \o <<"\n">> \o StackLine


\* ---------------------------------------------------------------------- C16
\* The kind of outcome of a call of processLogLine, from what it returned.
Kind(lineObj) ==
    IF lineObj = <<>> THEN "Ignored"
    ELSE IF lineObj[1].ParseStatus = STARTED THEN "Header"
    ELSE "Continuation"

\* Both calls have been made.
CalledTwice == pc = "classify" /\ Len(returned) = 2

\* C16 as stated: two calls with the same line and the same accumulator,
\* which the caller does not touch in between, return the same kind of
\* outcome and the same record.
C16_Original ==
    CalledTwice =>
        /\ Kind(returned[1]) = Kind(returned[2])
        /\ returned[1] = returned[2]

\* C16: the two calls give the same kind of outcome. For a header line and for
\* an ignored line they return the same record; a continuation is appended on
\* each call, so the record of the second call is that of the first with the
\* line appended once more to its raw and to its message, all else equal.
C16_SameKind ==
    CalledTwice =>
        /\ Kind(returned[1]) = Kind(returned[2])
        /\ Kind(returned[1]) # "Continuation" => returned[1] = returned[2]
        /\ Kind(returned[1]) = "Continuation" =>
              returned[2][1] =
                  [returned[1][1] EXCEPT
                      !.Raw = returned[1][1].Raw \o <<"\n">> \o input[1],
                      !.Message = returned[1][1].Message \o <<"\n">> \o input[1]]

\* A stack frame given twice to an ERROR record is in its raw twice.
C16_Witness ==
    /\ CalledTwice
    /\ input = <<StackLine>>
    /\ Kind(returned[1]) = "Continuation"
    /\ returned[1][1].Raw = HeaderError \o <<"\n">> \o StackLine
    /\ returned[2][1].Raw = HeaderError \o <<"\n">> \o StackLine \o <<"\n">> \o StackLine


\* ---------------------------------------------------------------------- C17
\* The record of header line h as the accumulator holds it right after h.
FreshRecord(h) ==
    [Time |-> Fields(h).Time, Level |-> Fields(h).Level, Pid |-> Fields(h).Pid,
     Thread |-> Fields(h).Thread, Class |-> Fields(h).Class,
     Message |-> Fields(h).Message, Raw |-> h, ParseStatus |-> STARTED]

\* The step delivered a header line.
HeaderStep == LineStep /\ IsHeaderLine(NewLine)

\* C17: a step that reads a header line leaves in the accumulator the record
\* of that line alone, in state STARTED, with the line as its raw and the
\* line's trimmed message, whatever the accumulator held before; so between
\* two lines, when the last line read is a header line, the accumulator is
\* its fresh record.
C17_FreshAfterHeader ==
    /\ [][HeaderStep => logObjectBuffer' = FreshRecord(NewLine)]_vars
    /\ []((pc = "scan" /\ input # <<>> /\ IsHeaderLine(input[Len(input)]))
             => logObjectBuffer = FreshRecord(input[Len(input)]))

\* An INFO header after an ERROR record with a continuation line: nothing of
\* the ERROR record is left in the accumulator.
C17_Witness ==
    /\ pc = "scan"
    /\ input = <<HeaderError, TabLine, HeaderInfo>>
    /\ Len(sink) = 1
    /\ sink[1].record.ParseStatus = CONTINUED
    /\ logObjectBuffer = FreshRecord(HeaderInfo)
    /\ logObjectBuffer.Level = Info


\* ---------------------------------------------------------------------- C18
\* C18: between two lines the state of the accumulator is EMPTY, STARTED or
\* CONTINUED, never COMPLETE; it is EMPTY exactly as long as no header line
\* has been read; and a step that hands a record to the sink leaves the
\* accumulator STARTED.
C18_LoopBoundaryStates ==
    /\ [](pc = "scan" =>
             /\ logObjectBuffer.ParseStatus \in {EMPTY, STARTED, CONTINUED}
             /\ logObjectBuffer.ParseStatus = EMPTY <=> HeadersOf(input) = <<>>)
    /\ [][(LineStep /\ sink' # sink) => logObjectBuffer'.ParseStatus = STARTED]_vars
    /\ [][(LineStep /\ logObjectBuffer.ParseStatus # EMPTY)
             => logObjectBuffer'.ParseStatus # EMPTY]_vars

\* A continued record was flushed by a header line, and lines that are
\* ignored or empty follow: the accumulator is STARTED.
C18_Witness ==
    /\ pc = "scan"
    /\ input = <<HeaderError, StackLine, HeaderInfo, EmptyLine>>
    /\ Len(sink) = 1
    /\ logObjectBuffer.ParseStatus = STARTED

\* ---------------------------------------------------------------------- C19
\* C19: the timestamp handed with the k-th record is that of the header line
\* before the k-th in the input, whether or not the record of that line was
\* shown; and between two lines previousLogObject is the record flushed last,
\* the one of the header line before the last.
C19_AdvancesWhenFiltered ==
    /\ \A k \in 1..Len(sink) :
          sink[k].previousTimestamp =
              IF k = 1 THEN <<>> ELSE Fields(HeadersOf(input)[k - 1]).Time
    /\ pc = "scan" =>
          IF Len(HeadersOf(input)) <= 1
          THEN previousLogObject = <<>>
          ELSE previousLogObject # <<>>
               /\ previousLogObject[1].Time =
                      Fields(HeadersOf(input)[Len(HeadersOf(input)) - 1]).Time

\* Under -level ERROR -grep timeout the INFO record is not shown, and its
\* timestamp is handed with the ERROR record that is.
C19_Witness ==
    /\ EndedAtEOF
    /\ ctx.Level = ERROR
    /\ input = <<HeaderInfo, HeaderError, TabLine>>
    /\ Len(sink) = 2
    /\ ~sink[1].shown
    /\ sink[2].shown
    /\ sink[2].previousTimestamp = FieldsInfo.Time

\* ---------------------------------------------------------------------- C20
\* The five fields of a record that come from its header line alone.
HeaderFields(rec) == <<rec.Time, rec.Level, rec.Pid, rec.Thread, rec.Class>>

\* C20: a step that reads a non-header line and changes the accumulator
\* leaves its timestamp, level, process id, thread and source as they were,
\* sets its state to CONTINUED and extends its message and its raw by one and
\* the same suffix, a line break and the line as read; and between two lines
\* the five fields of a record in progress are those of its header line.
C20_ContinuationFrame ==
    /\ [][(NonHeaderStep /\ logObjectBuffer' # logObjectBuffer) =>
             LET suffix == <<"\n">> \o NewLine
             IN  /\ HeaderFields(logObjectBuffer') = HeaderFields(logObjectBuffer)
                 /\ logObjectBuffer'.ParseStatus = CONTINUED
                 /\ logObjectBuffer'.Message = logObjectBuffer.Message \o suffix
                 /\ logObjectBuffer'.Raw = logObjectBuffer.Raw \o suffix]_vars
    /\ []((pc = "scan" /\ logObjectBuffer.ParseStatus # EMPTY) =>
             HeaderFields(logObjectBuffer) = HeaderFields(FreshRecord(LastHeader(input))))

\* An ERROR record took a line indented by a space and one indented by a tab,
\* each untrimmed.
C20_Witness ==
    /\ pc = "scan"
    /\ input = <<HeaderError, SpaceLine, TabLine>>
    /\ logObjectBuffer.ParseStatus = CONTINUED
    /\ HeaderFields(logObjectBuffer) = HeaderFields(FreshRecord(HeaderError))
    /\ logObjectBuffer.Message =
           FailedX \o <<"\n">> \o SpaceLine \o <<"\n">> \o TabLine

====
